---- MODULE Spec2Model ----
(***************************************************************************)
(* Model of mltools.data.structure.DataStructure: the resolution of the    *)
(* feature list, type map and shape map at construction, the binding and   *)
(* fitting of the per-feature scalers, the three transform modes (flat,    *)
(* col, colflat) and the inverse transform.                                *)
(*                                                                         *)
(* A Python dict is a sequence of [k, v] records in insertion order.  An   *)
(* array is a record [shape, data] with the data in row-major order.  The  *)
(* result of a call is a record whose field err is "" when the call        *)
(* returns and the name of the exception when it raises.                   *)
(***************************************************************************)
EXTENDS Integers, Sequences, FiniteSets, TLC

VARIABLES
    args,       \* the arguments of DataStructure(...)
    phase,      \* "new", "ready" (constructed) or "failed" (__init__ raised)
    err,        \* the exception __init__ raised, "" if none
    features,   \* self.features: list of feature names
    types,      \* self.types: dict feature -> type
    shapes,     \* self.shapes: dict feature -> shape
    scaler,     \* self.scaler: dict feature -> scaler object (an index of objs)
    objs,       \* the scaler objects and their fitted state
    call,       \* the last transform call: its input and flags
    out,        \* what that call returned or raised
    back,       \* what inverse_transform of that output returned or raised
    fit_called  \* whether fit has been called on the structure

vars == <<args, phase, err, features, types, shapes, scaler, objs, call, out, back,
          fit_called>>

struct == <<features, types, shapes>>

----------------------------------------------------------------------------
(* Bounds of the model *)

\* the inputs have 1..MaxSamples samples
MaxSamples == 2

----------------------------------------------------------------------------
(* Python dicts and tuples *)

Has(d, k) == \E i \in 1..Len(d) : d[i].k = k

Get(d, k) == d[CHOOSE i \in 1..Len(d) : d[i].k = k].v

Put(d, k, v) ==
    IF Has(d, k)
    THEN [i \in 1..Len(d) |-> IF d[i].k = k THEN [k |-> k, v |-> v] ELSE d[i]]
    ELSE Append(d, [k |-> k, v |-> v])

Keys(d) == [i \in 1..Len(d) |-> d[i].k]

InSeq(x, s) == \E i \in 1..Len(s) : s[i] = x

Front(s) == SubSeq(s, 1, Len(s) - 1)

RECURSIVE Prod(_)
Prod(s) == IF s = <<>> THEN 1 ELSE Head(s) * Prod(Tail(s))

\* dict.update(other)
RECURSIVE Update(_, _)
Update(d, other) ==
    IF other = <<>> THEN d
    ELSE Update(Put(d, Head(other).k, Head(other).v), Tail(other))

----------------------------------------------------------------------------
(* Module constants *)

_TYPES == <<"scalar", "vector", "matrix", "tensor">>

_TENSOR_ALIAS ==
    << [k |-> "tensor_0d", v |-> "scalar"],
       [k |-> "tensor_1d", v |-> "vector"],
       [k |-> "tensor_2d", v |-> "matrix"] >>

\* 'tensor_{}d'.format(k)
TensorName(k) ==
    CASE k = -1 -> "tensor_-1d"
      [] k = 0  -> "tensor_0d"
      [] k = 1  -> "tensor_1d"
      [] k = 2  -> "tensor_2d"
      [] OTHER  -> "tensor_3d"

\* t.startswith('tensor')
StartsWithTensor(t) ==
    t \in {"tensor", "tensor_-1d", "tensor_0d", "tensor_1d", "tensor_2d", "tensor_3d"}

----------------------------------------------------------------------------
(* Values of the constructor's arguments *)

\* a value of the `features` dict: None, a type string or a shape
VNone == [t |-> "none", s |-> "", sh |-> <<>>]
VStr(s) == [t |-> "str", s |-> s, sh |-> <<>>]
VShape(sh) == [t |-> "shape", s |-> "", sh |-> sh]

\* the first element of a column of `infer`: a number or an array
FNum == [t |-> "num", sh |-> <<>>]
FArr(sh) == [t |-> "arr", sh |-> sh]

\* a scaler of the `scaler` argument: an alias, a number or an object;
\* mixin: the object is a sklearn.base.TransformerMixin
\* caps: the object has the methods fit, transform and inverse_transform (an
\*       object without them has fit and transform but no inverse_transform)
\* uid: which object of the caller it is
SAlias(s) == [t |-> "alias", s |-> s, c |-> 0, uid |-> 0, mixin |-> FALSE, caps |-> FALSE]
SNum(c) == [t |-> "num", s |-> "", c |-> c, uid |-> 0, mixin |-> FALSE, caps |-> FALSE]
SObj(uid, mixin, caps) ==
    [t |-> "obj", s |-> "", c |-> 0, uid |-> uid, mixin |-> mixin, caps |-> caps]

NoArg == [kind |-> "none", items |-> <<>>]

----------------------------------------------------------------------------
(* DataStructure._extract_features_types_shapes *)

add_channel_dim(shape, feature, with_channels) ==
    IF feature \in with_channels THEN shape ELSE shape \o <<1>>

\* lines 193-203: the list of feature names, or the exception raised
FeatureList(a) ==
    IF a.features.kind = "none" /\ a.datatypes.kind = "none"
    THEN IF a.infer.kind = "none"
         THEN [err |-> "TypeError", list |-> <<>>]
         ELSE [err |-> "", list |-> Keys(a.infer.items)]
    ELSE LET own == IF a.features.kind \in {"dict", "list"}
                    THEN Keys(a.features.items) ELSE <<>>
         IN  IF a.datatypes.kind = "dict"
             THEN IF a.features.kind = "dict"
                  THEN [err |-> "", list |-> own \o Keys(a.features.items)]
                  ELSE [err |-> "AttributeError", list |-> own]
             ELSE [err |-> "", list |-> own]

\* lines 207-222: the values of a `features` dict
RECURSIVE DeclLoop(_, _, _)
DeclLoop(items, wc, st) ==
    IF items = <<>> \/ st.err # "" THEN st
    ELSE LET f == Head(items).k
             v == Head(items).v
             shape == add_channel_dim(v.sh, f, wc)
             nx == CASE v.t = "shape" ->
                          [st EXCEPT !.types = Put(@, f, TensorName(Len(shape) - 1)),
                                     !.shapes = Put(@, f, shape)]
                     [] v.t = "str" ->
                          [st EXCEPT !.types = Put(@, f, v.s),
                                     !.shapes = IF v.s = "scalar"
                                                THEN Put(@, f, <<1>>) ELSE @]
                     [] v.t = "none" -> st
                     [] OTHER -> [st EXCEPT !.err = "ValueError"]
         IN  DeclLoop(Tail(items), wc, nx)

\* lines 225-256: what is missing is taken from the first row of `infer`
RECURSIVE InferLoop(_, _, _, _)
InferLoop(fs, infer, wc, st) ==
    IF fs = <<>> \/ st.err # "" THEN st
    ELSE LET f == Head(fs)
         IN  IF ~Has(infer, f) THEN [st EXCEPT !.err = "KeyError"]
             ELSE
             LET first == Get(infer, f)
                 isarr == first.t = "arr"
                 shape == add_channel_dim(first.sh, f, wc)
                 s1 == IF Has(st.types, f) THEN st
                       ELSE CASE first.t = "num" ->
                                   [st EXCEPT !.types = Put(@, f, "scalar"),
                                              !.shapes = Put(@, f, <<1>>)]
                              [] isarr ->
                                   [st EXCEPT !.types = Put(@, f, TensorName(Len(shape) - 1)),
                                              !.shapes = Put(@, f, shape)]
                              [] OTHER -> [st EXCEPT !.err = "TypeError"]
                 s2 == IF s1.err = "" /\ ~Has(s1.shapes, f) /\ isarr
                       THEN [s1 EXCEPT !.shapes = Put(@, f, shape)]
                       ELSE s1
             IN  InferLoop(Tail(fs), infer, wc, s2)

\* lines 259-261: replace tensor types for low dimensions
ReplaceAlias(ts) ==
    [i \in 1..Len(ts) |->
        IF Has(_TENSOR_ALIAS, ts[i].v)
        THEN [k |-> ts[i].k, v |-> Get(_TENSOR_ALIAS, ts[i].v)]
        ELSE ts[i]]

\* lines 264-265: {f: "scalar" for f in self.features if f not in self.types}
RECURSIVE MissingTypes(_, _, _)
MissingTypes(fs, ts, acc) ==
    IF fs = <<>> THEN acc
    ELSE MissingTypes(Tail(fs), ts,
                      IF Has(ts, Head(fs)) THEN acc ELSE Put(acc, Head(fs), "scalar"))

\* lines 273-277: a tensor type without a shape; building the message of the
\* ValueError raises KeyError ('{f}'.format(f) has no keyword argument f)
TensorWithoutShape(ts, shs) ==
    \E i \in 1..Len(ts) :
        /\ ts[i].v \in {"vector", "matrix"} \/ StartsWithTensor(ts[i].v)
        /\ ~Has(shs, ts[i].k)

\* lines 193-222: the feature list, then the values of a `features` dict
Declare(a, fl) ==
    IF a.features.kind = "dict"
    THEN DeclLoop(a.features.items, a.with_channels,
                  [err |-> fl.err, features |-> fl.list, types |-> <<>>, shapes |-> <<>>])
    ELSE [err |-> fl.err, features |-> fl.list, types |-> <<>>, shapes |-> <<>>]

\* the inference that forgets what the declarations gave
InferOverDeclared(a, st) ==
    IF a.infer.kind # "none"
    THEN InferLoop(st.features, a.infer.items, a.with_channels,
                   [st EXCEPT !.types = <<>>, !.shapes = <<>>])
    ELSE st

\* lines 225-256
Infer(a, st) ==
    IF a.infer.kind # "none"
    THEN InferLoop(st.features, a.infer.items, a.with_channels, st) ELSE st

\* lines 259-267: the aliases, then "scalar" and (1,) for what is still missing
Defaults(st) ==
    LET ts == ReplaceAlias(st.types)
        missing == MissingTypes(st.features, ts, <<>>)
    IN  [st EXCEPT !.types = Update(ts, missing),
                   !.shapes = Update(@, [i \in 1..Len(missing) |->
                                            [k |-> missing[i].k, v |-> <<1>>]])]

\* lines 269-277
CheckShapes(st) ==
    IF st.err # "" THEN [err |-> st.err, features |-> <<>>, types |-> <<>>, shapes |-> <<>>]
    ELSE IF TensorWithoutShape(st.types, st.shapes)
    THEN [err |-> "KeyError", features |-> <<>>, types |-> <<>>, shapes |-> <<>>]
    ELSE st

_extract_features_types_shapes(a) ==
    CheckShapes(Defaults(Infer(a, Declare(a, FeatureList(a)))))

----------------------------------------------------------------------------
(* numpy arrays *)

Arr(shape, data) == [shape |-> shape, data |-> data]

NoArr == Arr(<<0>>, <<>>)

Size(a) == Len(a.data)

CountNeg(shape) == Cardinality({i \in 1..Len(shape) : shape[i] = -1})

RECURSIVE ProdKnown(_)
ProdKnown(s) ==
    IF s = <<>> THEN 1
    ELSE (IF Head(s) = -1 THEN 1 ELSE Head(s)) * ProdKnown(Tail(s))

\* ndarray.reshape(*shape): at most one -1, which is inferred from the size;
\* reshape() without any argument is a TypeError
CanReshape(a, shape) ==
    /\ CountNeg(shape) <= 1
    /\ IF CountNeg(shape) = 1
       THEN ProdKnown(shape) > 0 /\ Size(a) % ProdKnown(shape) = 0
       ELSE ProdKnown(shape) = Size(a)

ReshapeErr(a, shape) ==
    IF shape = <<>> THEN "TypeError"
    ELSE IF CanReshape(a, shape) THEN "" ELSE "ValueError"

Reshape(a, shape) ==
    Arr([i \in 1..Len(shape) |->
            IF shape[i] = -1 THEN Size(a) \div ProdKnown(shape) ELSE shape[i]],
        a.data)

\* array.reshape(shape[0], -1)
Flatten2D(a) == Reshape(a, <<a.shape[1], -1>>)

Width(a) == a.shape[2]

Row(a, r) == SubSeq(a.data, (r - 1) * Width(a) + 1, r * Width(a))

RECURSIVE ConcatRows(_, _)
ConcatRows(blocks, r) ==
    IF blocks = <<>> THEN <<>>
    ELSE Row(Head(blocks), r) \o ConcatRows(Tail(blocks), r)

RECURSIVE SumWidth(_)
SumWidth(blocks) ==
    IF blocks = <<>> THEN 0 ELSE Width(Head(blocks)) + SumWidth(Tail(blocks))

RECURSIVE Flat(_)
Flat(rows) == IF rows = <<>> THEN <<>> ELSE Head(rows) \o Flat(Tail(rows))

\* np.hstack of 2-D arrays with the same number of rows
hstack(blocks) ==
    LET n == Head(blocks).shape[1]
    IN  Arr(<<n, SumWidth(blocks)>>, Flat([r \in 1..n |-> ConcatRows(blocks, r)]))

\* array[:, pos:pos+size] of a 2-D array (a slice past the end is cut short)
Columns(a, pos, size) ==
    LET n == a.shape[1]
        hi == IF pos + size > Width(a) THEN Width(a) ELSE pos + size
        lo == IF pos > Width(a) THEN Width(a) ELSE pos
    IN  Arr(<<n, hi - lo>>, Flat([r \in 1..n |-> SubSeq(Row(a, r), lo + 1, hi)]))

----------------------------------------------------------------------------
(* Scalers.  A scaler object is [kind, uid, c, fitted, params, caps]:         *)
(*   "const": ConstantScaler(c), which shifts by c and has nothing to fit;    *)
(*   "sk": a scaler of sklearn.preprocessing, abstracted to what the          *)
(*         structure depends on: fit stores one parameter per column (here    *)
(*         the column minimum), transform subtracts it, inverse_transform     *)
(*         adds it back, both raise NotFittedError before fit and ValueError  *)
(*         on an array with another number of columns.                        *)
(* uid > 0 names an object of the caller, 0 an object made by _verify_scaler. *)
(* caps is FALSE for an object of the caller without inverse_transform.       *)

ConstantScaler(c) ==
    [kind |-> "const", uid |-> 0, c |-> c, fitted |-> TRUE, params |-> <<>>, caps |-> TRUE]

SklearnScaler(uid) ==
    [kind |-> "sk", uid |-> uid, c |-> 0, fitted |-> FALSE, params |-> <<>>, caps |-> TRUE]

\* an object of the caller
CallerScaler(uid, caps) == [SklearnScaler(uid) EXCEPT !.caps = caps]

MinOf(S) == CHOOSE x \in S : \A y \in S : x <= y

ColumnMin(a, j) == MinOf({Row(a, r)[j] : r \in 1..a.shape[1]})

ScalerFit(o, a) ==
    IF o.kind = "const" THEN o
    ELSE [o EXCEPT !.fitted = TRUE, !.params = [j \in 1..Width(a) |-> ColumnMin(a, j)]]

ScalerErr(o, a) ==
    IF o.kind = "const" THEN ""
    ELSE IF ~o.fitted THEN "NotFittedError"
    ELSE IF Len(o.params) # Width(a) THEN "ValueError"
    ELSE ""

\* what scaler.inverse_transform(a) raises
ScalerInverseErr(o, a) ==
    IF ~o.caps THEN "AttributeError" ELSE ScalerErr(o, a)

ColOf(a, i) == ((i - 1) % Width(a)) + 1

ScalerTransform(o, a) ==
    IF o.kind = "const"
    THEN Arr(a.shape, [i \in 1..Size(a) |-> a.data[i] - o.c])
    ELSE Arr(a.shape, [i \in 1..Size(a) |-> a.data[i] - o.params[ColOf(a, i)]])

ScalerInverse(o, a) ==
    IF o.kind = "const"
    THEN Arr(a.shape, [i \in 1..Size(a) |-> a.data[i] + o.c])
    ELSE Arr(a.shape, [i \in 1..Size(a) |-> a.data[i] + o.params[ColOf(a, i)]])

\* DataStructure._verify_scaler: the object for one entry of the configuration
_verify_scaler(s) ==
    CASE s.t = "alias" ->
            IF s.s \in {"standard", "robust", "minmax"}
            THEN [err |-> "", obj |-> SklearnScaler(0)]
            ELSE [err |-> "ValueError", obj |-> SklearnScaler(0)]
      [] s.t = "num" -> [err |-> "", obj |-> ConstantScaler(s.c)]
      [] OTHER ->
            IF s.mixin THEN [err |-> "", obj |-> CallerScaler(s.uid, s.caps)]
            ELSE [err |-> "TypeError", obj |-> CallerScaler(s.uid, s.caps)]

\* "onehot" in f
IsOneHot(f) == f \in {"onehot"}

\* {f: scaler for f in self.features if "onehot" not in f}
RECURSIVE Broadcast(_, _, _)
Broadcast(fs, s, acc) ==
    IF fs = <<>> THEN acc
    ELSE Broadcast(Tail(fs), s, IF IsOneHot(Head(fs)) THEN acc ELSE Put(acc, Head(fs), s))

\* {f: self._verify_scaler(s) for f, s in scaler.items()}: an object of the
\* caller is the same object wherever it appears, the others are new
RECURSIVE VerifyAll(_, _)
VerifyAll(items, st) ==
    IF items = <<>> \/ st.err # "" THEN st
    ELSE LET f == Head(items).k
             r == _verify_scaler(Head(items).v)
             same == {i \in 1..Len(st.objs) : r.obj.uid > 0 /\ st.objs[i].uid = r.obj.uid}
             nx == IF r.err # "" THEN [st EXCEPT !.err = r.err]
                   ELSE IF same # {}
                   THEN [st EXCEPT !.scaler = Put(@, f, CHOOSE i \in same : TRUE)]
                   ELSE [st EXCEPT !.objs = Append(@, r.obj),
                                   !.scaler = Put(st.scaler, f, Len(st.objs) + 1)]
         IN  VerifyAll(Tail(items), nx)

set_scaler(cfg, fs) ==
    LET st0 == [err |-> "", scaler |-> <<>>, objs |-> <<>>]
    IN  CASE cfg.kind = "none" -> st0
          [] cfg.kind = "dict" -> VerifyAll(cfg.items, st0)
          [] OTHER -> VerifyAll(Broadcast(fs, cfg.items[1].v, <<>>), st0)

\* __init__ left by an exception
InitFailed(e) ==
    [err |-> e, features |-> <<>>, types |-> <<>>, shapes |-> <<>>,
     scaler |-> <<>>, objs |-> <<>>]

\* lines 160-168: the attributes once the scalers are set
InitDone(ex, sc) ==
    IF sc.err # "" THEN InitFailed(sc.err)
    ELSE [err |-> "", features |-> ex.features, types |-> ex.types,
          shapes |-> ex.shapes, scaler |-> sc.scaler, objs |-> sc.objs]

\* lines 150-168: the mode, then the scalers
InitRest(a, ex) ==
    IF ex.err # "" THEN InitFailed(ex.err)
    ELSE IF a.mode = "type" THEN InitFailed("NotImplementedError")
    ELSE InitDone(ex, set_scaler(a.scaler, ex.features))

\* DataStructure.__init__
DataStructureInit(a) == InitRest(a, _extract_features_types_shapes(a))

----------------------------------------------------------------------------
(* Inputs.  X is [kind, items, index]: a dict (kind "dict", its items), a      *)
(* DataFrame (kind "df", its columns as items, its row index) or anything else *)
(* (kind "other").                                                             *)

\* datatools.tab_to_array: a dict of arrays, one per column, the first axis
\* being the samples
tab_to_array(X) ==
    LET RECURSIVE Uniq(_, _)
        Uniq(items, acc) ==
            IF items = <<>> THEN acc
            ELSE Uniq(Tail(items),
                      IF Has(acc, Head(items).k) THEN acc ELSE Append(acc, Head(items)))
    IN  Uniq(X.items, <<>>)

\* data_filter that hands a dict on as it is
data_filterKeepsAll(X, fs) ==
    CASE X.kind = "dict" -> [err |-> "", X |-> X]
      [] X.kind = "df" ->
            IF \E i \in 1..Len(fs) : ~Has(X.items, fs[i])
            THEN [err |-> "KeyError", X |-> X]
            ELSE [err |-> "",
                  X |-> [X EXCEPT !.items = [i \in 1..Len(fs) |->
                                               [k |-> fs[i], v |-> Get(X.items, fs[i])]]]]
      [] OTHER -> [err |-> "NotImplementedError", X |-> X]

\* data_filter that takes the 'id' entry of a dict for a feature
data_filterKeepsId(X, fs) ==
    CASE X.kind = "dict" ->
            [err |-> "",
             X |-> [X EXCEPT !.items =
                       SelectSeq(X.items, LAMBDA it : InSeq(it.k, fs) \/ it.k = "id")]]
      [] X.kind = "df" ->
            IF \E i \in 1..Len(fs) : ~Has(X.items, fs[i])
            THEN [err |-> "KeyError", X |-> X]
            ELSE [err |-> "",
                  X |-> [X EXCEPT !.items = [i \in 1..Len(fs) |->
                                               [k |-> fs[i], v |-> Get(X.items, fs[i])]]]]
      [] OTHER -> [err |-> "NotImplementedError", X |-> X]

\* DataStructure.data_filter
data_filter(X, fs) ==
    CASE X.kind = "dict" ->
            [err |-> "",
             X |-> [X EXCEPT !.items = SelectSeq(X.items, LAMBDA it : InSeq(it.k, fs))]]
      [] X.kind = "df" ->
            IF \E i \in 1..Len(fs) : ~Has(X.items, fs[i])
            THEN [err |-> "KeyError", X |-> X]
            ELSE [err |-> "",
                  X |-> [X EXCEPT !.items = [i \in 1..Len(fs) |->
                                               [k |-> fs[i], v |-> Get(X.items, fs[i])]]]]
      [] OTHER -> [err |-> "NotImplementedError", X |-> X]

\* the structure and its scalers, as the methods read them
Self == [features |-> features, shapes |-> shapes, with_channels |-> args.with_channels,
         scaler |-> scaler, objs |-> objs, mode |-> args.mode]

\* _transform_array that takes the first scaler for a feature that has none
_transform_arrayFirstScaler(self, feature, array, scaling, flatten) ==
    LET scaled == scaling /\ Len(self.scaler) > 0
        o == IF Has(self.scaler, feature) THEN self.objs[Get(self.scaler, feature)]
             ELSE self.objs[1]
        flat == Flatten2D(array)
        e == IF scaled THEN ScalerErr(o, flat) ELSE ""
        a1 == IF scaled THEN ScalerTransform(o, flat) ELSE array
    IN  IF e # "" THEN [err |-> e, v |-> NoArr]
        ELSE [err |-> "", v |-> IF flatten THEN Flatten2D(a1) ELSE a1]

\* DataStructure._transform_array
_transform_array(self, feature, array, scaling, flatten) ==
    LET scaled == scaling /\ Len(self.scaler) > 0 /\ Has(self.scaler, feature)
        o == self.objs[Get(self.scaler, feature)]
        flat == Flatten2D(array)
        e == IF scaled THEN ScalerErr(o, flat) ELSE ""
        a1 == IF scaled THEN ScalerTransform(o, flat) ELSE array
    IN  IF e # "" THEN [err |-> e, v |-> NoArr]
        ELSE [err |-> "", v |-> IF flatten THEN Flatten2D(a1) ELSE a1]

\* for f, data in items: result[f] = self._transform_array(f, data, ...)
\* result[f] = ..., unless the call raised
Store(acc, f, r) ==
    IF r.err # "" THEN [acc EXCEPT !.err = r.err]
    ELSE [acc EXCEPT !.items = Put(@, f, r.v)]

\* for f, data in items: result[f] = self._transform_array(f, data, ...)
RECURSIVE TransformItems(_, _, _, _, _)
TransformItems(self, items, scaling, flatten, acc) ==
    IF acc.err # "" \/ items = <<>> THEN acc
    ELSE TransformItems(self, Tail(items), scaling, flatten,
             Store(acc, Head(items).k,
                   _transform_array(self, Head(items).k, Head(items).v, scaling, flatten)))

Raised(e) == [err |-> e, kind |-> "none", arr |-> NoArr, items |-> <<>>]

Values(d) == [i \in 1..Len(d) |-> d[i].v]

\* for f, data in tab_to_array(self.data_filter(X)).items(): ...
FilteredItems(self, fl, scaling, flatten, ids) ==
    TransformItems(self, tab_to_array(fl.X), scaling, flatten,
                   [err |-> fl.err, items |-> ids])

\* line 388: np.hstack of the values (of no value at all: ValueError)
Stacked(r) ==
    IF r.err # "" THEN Raised(r.err)
    ELSE IF r.items = <<>> THEN Raised("ValueError")
    ELSE [err |-> "", kind |-> "flat", arr |-> hstack(Values(r.items)), items |-> <<>>]

\* DataStructure.transform_flat
transform_flat(self, X, scaling) ==
    Stacked(FilteredItems(self, data_filter(X, self.features), scaling, TRUE, <<>>))

\* transform_col that leaves the blocks as _transform_array returned them
TrailingAxisUntouched(self, items, trivial_dim, acc) ==
    [err |-> "", items |-> acc.items \o items]

\* lines 441-449 of transform_col: the trailing axis of the blocks
RECURSIVE TrailingAxis(_, _, _, _)
TrailingAxis(self, items, trivial_dim, acc) ==
    IF items = <<>> \/ acc.err # "" THEN acc
    ELSE LET k == Head(items).k
             v == Head(items).v
             want == IF trivial_dim
                     THEN IF ~Has(self.shapes, k) THEN <<>> ELSE <<-1>> \o Get(self.shapes, k)
                     ELSE Front(v.shape)
             change == /\ k # "id"
                       /\ IF trivial_dim
                          THEN ~Has(self.shapes, k) \/ Tail(v.shape) # Get(self.shapes, k)
                          ELSE v.shape[Len(v.shape)] = 1
             e == IF ~change THEN ""
                  ELSE IF trivial_dim /\ ~Has(self.shapes, k) THEN "KeyError"
                  ELSE ReshapeErr(v, want)
         IN  TrailingAxis(self, Tail(items), trivial_dim,
                 IF e # "" THEN [acc EXCEPT !.err = e]
                 ELSE [acc EXCEPT !.items =
                          Append(@, [k |-> k, v |-> IF change THEN Reshape(v, want) ELSE v])])

\* lines 422-427: the identifiers of the samples
Ids(X) ==
    CASE X.kind = "df" -> <<[k |-> "id", v |-> Arr(<<Len(X.index)>>, X.index)]>>
      [] X.kind = "dict" /\ Has(X.items, "id") -> <<[k |-> "id", v |-> Get(X.items, "id")]>>
      [] OTHER -> <<>>

\* lines 438-451: if not flatten, the trailing axes; then the dict is returned
Shaped(self, r, flatten, trivial_dim) ==
    IF r.err # "" THEN r
    ELSE IF flatten THEN r
    ELSE TrailingAxis(self, r.items, trivial_dim, [err |-> "", items |-> <<>>])

ColResult(t) ==
    IF t.err # "" THEN Raised(t.err)
    ELSE [err |-> "", kind |-> "dict", arr |-> NoArr, items |-> t.items]

\* DataStructure.transform_col
transform_col(self, X, scaling, flatten, trivial_dim) ==
    ColResult(Shaped(self,
                     FilteredItems(self, data_filter(X, self.features), scaling, flatten, Ids(X)),
                     flatten, trivial_dim))

\* the value None of the argument `mode`
NoMode == "None"

\* DataStructure.transform; line 376: mode = mode or self.mode
transform(self, X, mode, scaling, trivial_dim) ==
    LET m == IF mode = NoMode \/ mode = "" THEN self.mode ELSE mode
    IN  CASE mode = "type" -> Raised("NotImplementedError")
          [] m = "flat" -> transform_flat(self, X, scaling)
          [] m = "col" -> transform_col(self, X, scaling, FALSE, trivial_dim)
          [] m = "colflat" -> transform_col(self, X, scaling, TRUE, FALSE)
          [] OTHER -> Raised("ValueError")

----------------------------------------------------------------------------
(* The inverse transform *)

\* datatools.array_to_dict(array, shapes): the array is cut into one block per
\* entry of `shapes`, in the order of that dict, each as wide as the product of
\* its shape and reshaped to (-1, *shape)
RECURSIVE array_to_dict(_, _, _, _)
array_to_dict(y, shs, pos, acc) ==
    IF shs = <<>> \/ acc.err # "" THEN acc
    ELSE LET shape == Head(shs).v
             block == Columns(y, pos, Prod(shape))
             e == ReshapeErr(block, <<-1>> \o shape)
         IN  array_to_dict(y, Tail(shs), pos + Prod(shape),
                 IF e # "" THEN [acc EXCEPT !.err = e]
                 ELSE [acc EXCEPT !.items =
                          Put(@, Head(shs).k, Reshape(block, <<-1>> \o shape))])

\* DataStructure.inverse_transform_col
RECURSIVE inverse_transform_col(_, _, _, _)
inverse_transform_col(self, y, scaling, acc) ==
    IF y = <<>> \/ acc.err # "" THEN acc
    ELSE LET k == Head(y).k
             v == Head(y).v
             s0 == IF k \in self.with_channels THEN v.shape ELSE Front(v.shape)
             shape == IF s0 = <<>> THEN <<-1>> ELSE s0
             scaled == scaling /\ Len(self.scaler) > 0 /\ Has(self.scaler, k)
             o == self.objs[Get(self.scaler, k)]
             e1 == IF scaled THEN ReshapeErr(v, <<shape[1], -1>>) ELSE ""
             v2d == Reshape(v, <<shape[1], -1>>)
             e2 == IF scaled /\ e1 = "" THEN ScalerInverseErr(o, v2d) ELSE e1
             v1 == IF scaled THEN ScalerInverse(o, v2d) ELSE v
             e3 == IF e2 # "" THEN e2 ELSE ReshapeErr(v1, shape)
         IN  inverse_transform_col(self, Tail(y), scaling,
                 IF e3 # "" THEN [acc EXCEPT !.err = e3]
                 ELSE [acc EXCEPT !.items = Put(@, k, Reshape(v1, shape))])

\* DataStructure.inverse_transform_flat
inverse_transform_flat(self, y, scaling) ==
    LET d == array_to_dict(y, self.shapes, 0, [err |-> "", items |-> <<>>])
    IN  IF d.err # "" THEN d
        ELSE inverse_transform_col(self, d.items, scaling, [err |-> "", items |-> <<>>])

\* DataStructure.inverse_transform of what transform returned
inverse_transform(self, y, scaling) ==
    CASE y.kind = "dict" ->
            inverse_transform_col(self, y.items, scaling, [err |-> "", items |-> <<>>])
      [] y.kind = "flat" -> inverse_transform_flat(self, y.arr, scaling)
      [] OTHER -> [err |-> "NotImplementedError", items |-> <<>>]

----------------------------------------------------------------------------
(* Fitting the scalers *)

\* for f, data in ...items(): if f in self.scaler: self.scaler[f].fit(data)
RECURSIVE FitItems(_, _, _)
FitItems(self, items, os) ==
    IF items = <<>> THEN os
    ELSE LET f == Head(items).k
             i == Get(self.scaler, f)
         IN  FitItems(self, Tail(items),
                 IF Has(self.scaler, f)
                 THEN [os EXCEPT ![i] = ScalerFit(@, Head(items).v)] ELSE os)

\* a fit that leaves a scaler that is already fitted as it is
FittedOnce(self, r) ==
    IF r.err # "" THEN [err |-> r.err, objs |-> self.objs]
    ELSE [err |-> "",
          objs |-> [i \in 1..Len(self.objs) |->
                       IF self.objs[i].fitted THEN self.objs[i]
                       ELSE FitItems(self, r.items, self.objs)[i]]]

\* lines 343-345: every scaler is fitted on the columns of its feature
Fitted(self, r) ==
    IF r.err # "" THEN [err |-> r.err, objs |-> self.objs]
    ELSE [err |-> "", objs |-> FitItems(self, r.items, self.objs)]

\* DataStructure.fit: the scaler objects after the call, and what it raised
\* (the argument `reset` is not read)
fit(self, X, reset) ==
    IF Len(self.scaler) = 0 THEN [err |-> "", objs |-> self.objs]
    ELSE Fitted(self,
                transform_col(self,
                              IF X.kind \in {"dict", "df"} /\ Has(X.items, "train")
                              THEN Get(X.items, "train") ELSE X,
                              FALSE, TRUE, FALSE))

----------------------------------------------------------------------------
(* The data given to the structure.  A data set is described by             *)
(* [form, order, extra, n, seed]: a dict, a DataFrame or (form "list", which *)
(* is neither) a list of n samples whose                                     *)
(* columns are the declared features, in declared or in reverse order, with  *)
(* possibly a column "x" the structure does not declare or (dict) an "id"    *)
(* entry.  The array of a feature has the per-sample shape of the shape map, *)
(* without the channel axis the structure added to it (a feature without a   *)
(* shape is a column of numbers), and every element has its own value.       *)

RECURSIVE Distinct(_, _)
Distinct(fs, acc) ==
    IF fs = <<>> THEN acc
    ELSE Distinct(Tail(fs), IF InSeq(Head(fs), acc) THEN acc ELSE Append(acc, Head(fs)))

Reverse(s) == [i \in 1..Len(s) |-> s[Len(s) + 1 - i]]

Code(f) == CASE f = "a" -> 1 [] f = "b" -> 2 [] OTHER -> 3

\* the per-sample shape of the data of feature f
SampleShape(f) ==
    IF ~Has(shapes, f) THEN <<>>
    ELSE IF f \in args.with_channels THEN Get(shapes, f)
    ELSE Front(Get(shapes, f))

Column(f, shape, n, seed) ==
    LET size == Prod(shape)
    IN  Arr(<<n>> \o shape,
            [i \in 1..(n * size) |->
                100 * Code(f) + 10 * (((i - 1) \div size) + 1) + ((i - 1) % size) + 1 + seed])

RowIds(n) == [r \in 1..n |-> 900 + r]

MakeX(d) ==
    LET fs0 == Distinct(features, <<>>)
        fs == IF d.order = "rev" THEN Reverse(fs0) ELSE fs0
        cols == [i \in 1..Len(fs) |->
                    [k |-> fs[i], v |-> Column(fs[i], SampleShape(fs[i]), d.n, d.seed)]]
        pre == CASE d.extra = "x" -> <<[k |-> "x", v |-> Column("x", <<>>, d.n, d.seed)]>>
                 [] d.extra = "id" -> <<[k |-> "id", v |-> Arr(<<d.n>>, RowIds(d.n))]>>
                 [] OTHER -> <<>>
    IN  [kind |-> d.form, items |-> pre \o cols,
         index |-> IF d.form = "df" THEN RowIds(d.n) ELSE <<>>]

\* the data sets transform is called with
Inputs ==
    { d \in [form : {"dict", "df", "list"}, order : {"fwd", "rev"}, extra : {"", "x", "id"},
             n : 1..MaxSamples, seed : {0}] :
        /\ d.form = "df" => d.extra # "id"
        /\ d.form = "list" => d.order = "fwd" /\ d.extra = "" /\ d.n = MaxSamples
        /\ d.order = "rev" => d.extra = ""
        /\ d.n < MaxSamples => d.order = "fwd" /\ d.extra = "" }

Plain(d) == d.form = "dict" /\ d.order = "fwd" /\ d.extra = "" /\ d.n = MaxSamples

\* the data sets fit is called with
TrainInputs ==
    [form : {"dict"}, order : {"fwd"}, extra : {""}, n : {MaxSamples}, seed : {0, 5}]

\* the calls of transform
Calls ==
    { c \in [mode : {"flat", "col", "colflat", NoMode, "", "type", "bogus"},
             scaling : BOOLEAN, trivial_dim : BOOLEAN] :
        /\ c.mode # "col" => ~c.trivial_dim
        /\ c.mode \in {NoMode, "", "type", "bogus"} => c.scaling }

----------------------------------------------------------------------------
(* The constructor's arguments *)

DictOf(items) == [kind |-> "dict", items |-> items]

ListOf(names) == [kind |-> "list", items |-> [i \in 1..Len(names) |-> [k |-> names[i], v |-> VNone]]]

ValuesA ==
    { VNone, VStr("scalar"), VStr("vector"), VStr("tensor_0d"),
      VShape(<<>>), VShape(<<1>>), VShape(<<2>>), VShape(<<2, 1>>), VShape(<<2, 2>>) }

\* the values of a declaration of two features
ValuesA2 == { VNone, VStr("scalar"), VShape(<<2>>) }

ValuesB == { VNone, VShape(<<2>>) }

FeatureArgs ==
    { DictOf(<<[k |-> "a", v |-> va]>>) : va \in ValuesA }
    \cup { DictOf(<<[k |-> "a", v |-> va], [k |-> "b", v |-> vb]>>) : va \in ValuesA2, vb \in ValuesB }
    \cup { ListOf(<<"a">>), ListOf(<<"a", "b">>), ListOf(<<"onehot">>), NoArg }

InferArgs ==
    { NoArg,
      DictOf(<<[k |-> "a", v |-> FNum], [k |-> "b", v |-> FNum]>>),
      DictOf(<<[k |-> "a", v |-> FArr(<<2>>)], [k |-> "b", v |-> FArr(<<2>>)]>>),
      DictOf(<<[k |-> "a", v |-> FArr(<<2, 2>>)], [k |-> "b", v |-> FNum]>>) }

\* datatypes={'scalar': ['a']}
DatatypesArgs == { NoArg, DictOf(<<[k |-> "scalar", v |-> <<"a">>]>>) }

Single(s) == [kind |-> "single", items |-> <<[k |-> "", v |-> s]>>]

ScalerArgs ==
    { NoArg, Single(SNum(3)), Single(SAlias("standard")), Single(SObj(1, TRUE, TRUE)),
      DictOf(<<[k |-> "a", v |-> SNum(3)]>>), DictOf(<<[k |-> "b", v |-> SAlias("minmax")]>>),
      Single(SAlias("bogus")), DictOf(<<[k |-> "a", v |-> SAlias("bogus")]>>),
      Single(SObj(1, FALSE, TRUE)), Single(SObj(1, FALSE, FALSE)), Single(SObj(1, TRUE, FALSE)) }

ModeArgs == { "flat", "col", "type", "bogus" }

\* besides `features` and `with_channels`, at most one argument is given
Configs ==
    { c \in [features : FeatureArgs, with_channels : {{}, {"a"}}, infer : InferArgs,
             datatypes : DatatypesArgs, scaler : ScalerArgs, mode : ModeArgs] :
        Cardinality({ i \in 1..4 :
            \/ i = 1 /\ c.infer # NoArg
            \/ i = 2 /\ c.datatypes # NoArg
            \/ i = 3 /\ c.scaler # NoArg
            \/ i = 4 /\ c.mode # "flat" }) <= 1 }

----------------------------------------------------------------------------
(* The state machine *)

\* reset: the argument `reset` of a call of fit; prev: the seed of the data of
\* the call of fit right before a call of fit, -1 if there was none
NoCall == [op |-> "none", X |-> [form |-> "", order |-> "", extra |-> "", n |-> 0, seed |-> 0],
           mode |-> "", scaling |-> FALSE, trivial_dim |-> FALSE,
           reset |-> FALSE, prev |-> -1]

NoOut == Raised("")

NoBack == [done |-> FALSE, scaling |-> FALSE, err |-> "", items |-> <<>>]

Init ==
    /\ args \in Configs
    /\ phase = "new"
    /\ err = ""
    /\ features = <<>>
    /\ types = <<>>
    /\ shapes = <<>>
    /\ scaler = <<>>
    /\ objs = <<>>
    /\ call = NoCall
    /\ out = NoOut
    /\ back = NoBack
    /\ fit_called = FALSE

\* DataStructure(features, datatypes, with_channels, infer, scaler, mode)
Construct ==
    /\ phase = "new"
    /\ \E r \in {DataStructureInit(args)} :
           /\ phase' = IF r.err = "" THEN "ready" ELSE "failed"
           /\ err' = r.err
           /\ features' = r.features
           /\ types' = r.types
           /\ shapes' = r.shapes
           /\ scaler' = r.scaler
           /\ objs' = r.objs
    /\ UNCHANGED <<args, call, out, back, fit_called>>

\* structure.fit(X, reset=reset); reset=True is tried on a structure that was
\* fitted by the call before
Fit(d, reset) ==
    /\ phase = "ready"
    /\ reset => call.op = "fit"
    /\ \E r \in {fit(Self, MakeX(d), reset)} :
           /\ objs' = r.objs
           /\ out' = Raised(r.err)
    /\ call' = [NoCall EXCEPT !.op = "fit", !.X = d, !.reset = reset,
                              !.prev = IF call.op = "fit" THEN call.X.seed ELSE -1]
    /\ back' = NoBack
    /\ fit_called' = TRUE
    /\ UNCHANGED <<args, phase, err, features, types, shapes, scaler>>

SameCall(d, c) ==
    /\ call.X = d
    /\ call.mode = c.mode
    /\ call.scaling = c.scaling
    /\ call.trivial_dim = c.trivial_dim

\* transform that fits the scalers on the data it is given
TransformFits(d, c) ==
    /\ phase = "ready"
    /\ d.order = "rev" => Len(Distinct(features, <<>>)) > 1
    /\ c.mode \in {NoMode, "", "type", "bogus"} => Plain(d)
    /\ ~c.scaling => Plain(d)
    /\ d.form = "list" => c.scaling /\ c.mode \in {"flat", "col", "colflat"} /\ ~c.trivial_dim
    /\ call.op = "transform" => SameCall(d, c)
    /\ call' = [NoCall EXCEPT !.op = "transform", !.X = d, !.mode = c.mode,
                              !.scaling = c.scaling, !.trivial_dim = c.trivial_dim]
    /\ out' = transform(Self, MakeX(d), c.mode, c.scaling, c.trivial_dim)
    /\ back' = NoBack
    /\ \E r \in {fit(Self, MakeX(d), FALSE)} : objs' = r.objs
    /\ UNCHANGED <<args, phase, err, features, types, shapes, scaler, fit_called>>

\* structure.transform(X, mode, scaling=scaling, trivial_dim=trivial_dim).  The
\* caller holds one result at a time: it may invert it and call transform
\* again with the same arguments, and lets go of it (Forget) before it calls
\* transform with other arguments.
Transform(d, c) ==
    /\ phase = "ready"
    /\ d.order = "rev" => Len(Distinct(features, <<>>)) > 1
    /\ c.mode \in {NoMode, "", "type", "bogus"} => Plain(d)
    /\ ~c.scaling => Plain(d)
    /\ d.form = "list" => c.scaling /\ c.mode \in {"flat", "col", "colflat"} /\ ~c.trivial_dim
    /\ call.op = "transform" => SameCall(d, c)
    /\ call' = [NoCall EXCEPT !.op = "transform", !.X = d, !.mode = c.mode,
                              !.scaling = c.scaling, !.trivial_dim = c.trivial_dim]
    /\ out' = transform(Self, MakeX(d), c.mode, c.scaling, c.trivial_dim)
    /\ back' = NoBack
    /\ UNCHANGED <<args, phase, err, features, types, shapes, scaler, objs, fit_called>>

\* inverse_transform that uses up the scalers
InverseDropsScalers(scaling) ==
    /\ phase = "ready"
    /\ call.op = "transform"
    /\ out.err = ""
    /\ \E r \in {inverse_transform(Self, out, scaling)} :
           back' = [done |-> TRUE, scaling |-> scaling, err |-> r.err,
                    items |-> IF r.err = "" THEN r.items ELSE <<>>]
    /\ scaler' = <<>>
    /\ UNCHANGED <<args, phase, err, features, types, shapes, objs, call, out, fit_called>>

\* structure.inverse_transform(y, scaling=scaling) of the output of the last transform
Inverse(scaling) ==
    /\ phase = "ready"
    /\ call.op = "transform"
    /\ out.err = ""
    /\ \E r \in {inverse_transform(Self, out, scaling)} :
           back' = [done |-> TRUE, scaling |-> scaling, err |-> r.err,
                    items |-> IF r.err = "" THEN r.items ELSE <<>>]
    /\ UNCHANGED <<args, phase, err, features, types, shapes, scaler, objs, call, out,
                   fit_called>>

\* DataStructure.summary: the dict it returns
summary(self) == [err |-> "", kind |-> "summary", arr |-> NoArr, items |-> self.features]

\* structure.summary()
Summary ==
    /\ phase = "ready"
    /\ call.op \in {"none", "fit"}
    /\ call' = [NoCall EXCEPT !.op = "summary"]
    /\ out' = summary(Self)
    /\ back' = NoBack
    /\ UNCHANGED <<args, phase, err, features, types, shapes, scaler, objs, fit_called>>

\* the caller lets go of the result it holds
Forget ==
    /\ phase = "ready"
    /\ call.op = "transform"
    /\ call' = NoCall
    /\ out' = NoOut
    /\ back' = NoBack
    /\ UNCHANGED <<args, phase, err, features, types, shapes, scaler, objs, fit_called>>

Next ==
    \/ Construct
    \/ Forget
    \/ Summary
    \/ \E d \in TrainInputs, reset \in BOOLEAN : Fit(d, reset)
    \/ \E d \in Inputs, c \in Calls : Transform(d, c)
    \/ \E sc \in BOOLEAN : Inverse(sc)

Spec == Init /\ [][Next]_vars

----------------------------------------------------------------------------
(* What the properties talk about *)

\* the mode the last call of transform worked in
Mode == IF call.mode \in {NoMode, ""} THEN args.mode ELSE call.mode

\* the last call was transform in mode m and it returned
Returned(m) == call.op = "transform" /\ out.err = "" /\ Mode = m

\* the input of the last call
TheX == MakeX(call.X)

Declared == Distinct(features, <<>>)

FeatureSet == {features[i] : i \in 1..Len(features)}

\* feature f is declared by a shape in the `features` dict
DeclaredShape(f) ==
    /\ args.features.kind = "dict"
    /\ Has(args.features.items, f)
    /\ Get(args.features.items, f).t = "shape"

\* feature f has a scaler and the call asked for scaling
Scaled(f, scaling) == scaling /\ Has(scaler, f)

RECURSIVE SumShapes(_)
SumShapes(fs) ==
    IF fs = <<>> THEN 0
    ELSE (IF Has(shapes, Head(fs)) THEN Prod(Get(shapes, Head(fs))) ELSE 0)
         + SumShapes(Tail(fs))

\* the feature list names every feature once and every feature has a shape
WellFormed ==
    /\ Len(Declared) = Len(features)
    /\ \A f \in FeatureSet : Has(shapes, f)

----------------------------------------------------------------------------
(* C1: the width of the flat output *)

\* C1: whenever transform(X, mode='flat') returns, its result is a 2-D array
\* with one row per sample of X, as wide as the sum over the feature list of
\* the products of the features' shapes.
C1_FlatWidth ==
    Returned("flat") =>
        /\ Len(out.arr.shape) = 2
        /\ out.arr.shape[1] = call.X.n
        /\ out.arr.shape[2] = SumShapes(features)

\* The same for the structures whose feature list has no duplicate and whose
\* shape map has an entry for every feature.
C1_FlatWidthWellFormed == WellFormed => C1_FlatWidth

----------------------------------------------------------------------------
(* C2: the order of the blocks of the flat output *)

\* the block of feature f in the flat output of the last call
FlatBlock(f) ==
    LET col == Flatten2D(Get(TheX.items, f))
    IN  IF Scaled(f, call.scaling) THEN ScalerTransform(objs[Get(scaler, f)], col) ELSE col

\* C2: the flat output is the blocks of the features side by side in the
\* declared order of the features, whatever the order of the keys of a dict
\* input or of the columns of a DataFrame input.
C2_FlatDeclaredOrder ==
    Returned("flat") =>
        out.arr = hstack([i \in 1..Len(Declared) |-> FlatBlock(Declared[i])])

----------------------------------------------------------------------------
(* C3: the blocks inverse_transform cuts a flat array into *)

\* where the block of the i-th declared feature starts in the flat layout
Offset(i) == SumShapes(SubSeq(Declared, 1, i - 1))

\* C3: inverse_transform gives feature i of the declared order the columns of
\* the flat array that start after the blocks of the features declared before
\* it, as many as the product of its shape (stated for the structures whose
\* feature list has no duplicate and whose shape map is complete).
C3_InverseSlicesInDeclaredOrder ==
    (WellFormed /\ back.done /\ back.err = "" /\ ~back.scaling /\ out.kind = "flat") =>
        \A i \in 1..Len(Declared) :
            /\ Has(back.items, Declared[i])
            /\ Get(back.items, Declared[i]).data
                 = Columns(out.arr, Offset(i), SumShapes(<<Declared[i]>>)).data

----------------------------------------------------------------------------
(* C4, C5: round trips *)

\* inverse_transform gave back the input of transform, shape and values
RoundTrip ==
    /\ back.err = ""
    /\ \A f \in FeatureSet :
          Has(back.items, f) /\ Get(back.items, f) = Get(TheX.items, f)

\* C4: inverse_transform(transform(X, mode='col', scaling=False), scaling=False)
\* returns the arrays of X.
C4_RoundTripCol ==
    (back.done /\ Mode = "col" /\ ~call.trivial_dim /\ ~call.scaling /\ ~back.scaling)
        => RoundTrip

AllFitted == \A i \in 1..Len(objs) : objs[i].fitted

\* C5: with every scaler fitted,
\* inverse_transform(transform(X, mode='flat', scaling=True), scaling=True)
\* returns the arrays of X (stated for the structures whose feature list has
\* no duplicate and whose shape map is complete).
C5_RoundTripFlatScaled ==
    (WellFormed /\ back.done /\ Mode = "flat" /\ call.scaling /\ back.scaling
        /\ Len(scaler) > 0 /\ AllFitted)
        => RoundTrip

----------------------------------------------------------------------------
(* C6: determinism *)

----------------------------------------------------------------------------
(* C7, C8: the trailing axis in col mode *)

\* the per-sample shape of the block of feature f in a col output
OutShape(f) == Tail(Get(out.items, f).shape)

\* C7: in col mode with trivial_dim=False, a feature declared with a shape
\* comes out with that shape per sample: if it is not in with_channels it
\* loses the unit axis the structure added, and if it is in with_channels it
\* keeps the shape of the shape map (stated for the features without scaler).
C7_ChannelAxisPolicy ==
    (Returned("col") /\ ~call.trivial_dim) =>
        \A f \in FeatureSet :
            (DeclaredShape(f) /\ ~Has(scaler, f)) =>
                OutShape(f) = IF f \in args.with_channels
                              THEN Get(shapes, f) ELSE Front(Get(shapes, f))

\* C8: in col mode with trivial_dim=True every entry of the output except 'id'
\* has the per-sample shape of the shape map.
C8_TrivialDimShape ==
    (Returned("col") /\ call.trivial_dim) =>
        \A i \in 1..Len(out.items) :
            out.items[i].k # "id" =>
                /\ Has(shapes, out.items[i].k)
                /\ Tail(out.items[i].v.shape) = Get(shapes, out.items[i].k)
                /\ out.items[i].v.shape[1] = call.X.n

\* a feature that is not in with_channels came out with its unit channel axis,
\* scaled
C8_Witness ==
    /\ Returned("col") /\ call.trivial_dim /\ call.scaling
    /\ \E f \in FeatureSet :
          /\ f \notin args.with_channels
          /\ Has(scaler, f)
          /\ Has(out.items, f)
          /\ OutShape(f) = <<2, 1>>

----------------------------------------------------------------------------
(* C9: filtering *)

\* the call again, on the input without its undeclared column or its 'id' entry
WithoutExtra ==
    transform(Self, MakeX([call.X EXCEPT !.extra = ""]), call.mode, call.scaling,
              call.trivial_dim)

\* C9: a column of the input that the structure does not declare changes
\* nothing: the call returns (or raises) what it does without that column.
C9_UndeclaredColumnIgnored ==
    (call.op = "transform" /\ call.X.extra = "x") => out = WithoutExtra

\* an input with an undeclared column was transformed in flat mode
C9_Witness ==
    /\ Returned("flat") /\ call.X.extra = "x"
    /\ Len(Declared) > 1

----------------------------------------------------------------------------
(* C10: the identifier *)

\* the identifier of the input of the last call
TheId == Arr(<<call.X.n>>, RowIds(call.X.n))

HasId == call.X.form = "df" \/ call.X.extra = "id"

\* C10: the col and colflat outputs carry the identifier of the input,
\* unchanged, as their 'id' entry; the flat output holds no identifier and is
\* what it is for the input without the 'id' entry.
C10_IdPassthrough ==
    /\ ((Returned("col") \/ Returned("colflat")) /\ HasId) =>
          Has(out.items, "id") /\ Get(out.items, "id") = TheId
    /\ (Returned("flat") /\ HasId) =>
          /\ \A i \in 1..Len(out.arr.data) :
                \A r \in 1..call.X.n : out.arr.data[i] # RowIds(call.X.n)[r]
          /\ out = WithoutExtra

\* a DataFrame of one sample went through col mode with scaling: its 'id'
\* entry has a last axis of length 1
C10_Witness ==
    /\ Returned("col") /\ call.X.form = "df" /\ call.X.n = 1
    /\ call.scaling /\ Len(scaler) > 0
    /\ Get(out.items, "id") = TheId

----------------------------------------------------------------------------
(* C11: a feature without scaler *)

\* the last call of transform again, with scaling=False
Unscaled == transform(Self, TheX, call.mode, FALSE, call.trivial_dim)

\* inverse_transform of the held output again, with scaling=False
UnscaledBack == inverse_transform(Self, out, FALSE)

\* the blocks of the flat output of the last call, in their order
FlatLayout ==
    SelectSeq(transform_col(Self, TheX, FALSE, TRUE, FALSE).items, LAMBDA it : it.k # "id")

\* the feature whose block holds column j
RECURSIVE Owner(_, _)
Owner(items, j) ==
    IF j <= Width(Head(items).v) THEN Head(items).k
    ELSE Owner(Tail(items), j - Width(Head(items).v))

Unbound(f) == ~Has(scaler, f)

----------------------------------------------------------------------------
(* C12: unscaling before any fit *)

\* the data the caller inverts holds a feature that has a scaler
HoldsBound ==
    \E f \in FeatureSet :
        /\ Has(scaler, f)
        /\ IF out.kind = "flat" THEN Has(shapes, f) ELSE Has(out.items, f)

\* C12: inverse_transform with scaling=True of data that holds a feature with
\* a scaler, on a structure fit was never called on, raises NotFittedError,
\* whatever the form of the scaler configuration and of the data.
C12_NotFittedOnInverse ==
    (back.done /\ back.scaling /\ ~fit_called /\ HoldsBound) =>
        back.err = "NotFittedError"

----------------------------------------------------------------------------
(* C13: what fit leaves in the scalers *)

\* the parameters a scaler of its own gets from the columns of feature f of
\* the data of the last call of fit
OwnFit(f) ==
    ScalerFit(SklearnScaler(0), Flatten2D(Get(MakeX(call.X).items, f))).params

\* C13: after fit, the scaler of every feature that has one holds the
\* parameters fitted on the samples of that feature alone, reshaped to
\* (count, size), and no two features have the same scaler object, also when
\* one alias, number or object was given for all the features.
C13_FitPerFeature ==
    (call.op = "fit" /\ out.err = "") =>
        /\ \A f \in FeatureSet :
              (Has(scaler, f) /\ objs[Get(scaler, f)].kind = "sk") =>
                  /\ objs[Get(scaler, f)].fitted
                  /\ objs[Get(scaler, f)].params = OwnFit(f)
        /\ \A f, g \in FeatureSet :
              (f # g /\ Has(scaler, f) /\ Has(scaler, g)) => Get(scaler, f) # Get(scaler, g)

----------------------------------------------------------------------------
(* C14: what the type and the shape of a feature are resolved from *)

\* the value declared for feature f in `features` (None in a list)
DeclaredValue(f) ==
    IF args.features.kind = "dict" /\ Has(args.features.items, f)
    THEN Get(args.features.items, f) ELSE VNone

Sampled(f) == args.infer.kind = "dict" /\ Has(args.infer.items, f)

\* the first sampled value of feature f in `infer`
FirstSample(f) == Get(args.infer.items, f)

Alias(t) == IF Has(_TENSOR_ALIAS, t) THEN Get(_TENSOR_ALIAS, t) ELSE t

WithChannel(sh, f) == IF f \in args.with_channels THEN sh ELSE sh \o <<1>>

\* C14: in a constructed structure, a feature declared with a shape has that
\* shape (with its channel axis) and the tensor type of that shape, whatever
\* was sampled; a feature declared with a category has that category
\* (aliases replaced), whatever was sampled, the shape (1,) if the category
\* is scalar and else the sampled shape; a feature declared with neither has
\* the type and shape of its first sampled value; a feature with neither a
\* declaration nor a sample is a scalar of shape (1,).
C14_ResolutionPriority ==
    phase = "ready" =>
        \A f \in FeatureSet :
            /\ Has(types, f)
            /\ CASE DeclaredValue(f).t = "shape" ->
                      /\ Has(shapes, f)
                      /\ Get(shapes, f) = WithChannel(DeclaredValue(f).sh, f)
                      /\ Get(types, f) = Alias(TensorName(Len(Get(shapes, f)) - 1))
                 [] DeclaredValue(f).t = "str" ->
                      /\ Get(types, f) = Alias(DeclaredValue(f).s)
                      /\ DeclaredValue(f).s = "scalar" =>
                            Has(shapes, f) /\ Get(shapes, f) = <<1>>
                      /\ (DeclaredValue(f).s # "scalar" /\ Sampled(f)
                             /\ FirstSample(f).t = "arr") =>
                            /\ Has(shapes, f)
                            /\ Get(shapes, f) = WithChannel(FirstSample(f).sh, f)
                 [] Sampled(f) /\ FirstSample(f).t = "arr" ->
                      /\ Has(shapes, f)
                      /\ Get(shapes, f) = WithChannel(FirstSample(f).sh, f)
                      /\ Get(types, f) = Alias(TensorName(Len(Get(shapes, f)) - 1))
                 [] OTHER ->
                      /\ Get(types, f) = "scalar"
                      /\ Has(shapes, f) /\ Get(shapes, f) = <<1>>

\* a feature is declared with one shape and sampled with another, another
\* with a category while an array is sampled
C14_Witness ==
    /\ phase = "ready"
    /\ \E f \in FeatureSet :
          /\ DeclaredValue(f).t = "shape" /\ Sampled(f) /\ FirstSample(f).t = "arr"
          /\ DeclaredValue(f).sh # FirstSample(f).sh
          /\ Get(shapes, f) = WithChannel(DeclaredValue(f).sh, f)

----------------------------------------------------------------------------
(* C15: a tensor type without shape *)

\* feature f is declared with a tensor category and nothing gives its shape
TensorCategoryOnly(f) ==
    /\ DeclaredValue(f).t = "str"
    /\ DeclaredValue(f).s \in {"vector", "matrix"}
    /\ ~(Sampled(f) /\ FirstSample(f).t = "arr")

\* C15: the construction of a structure with a feature declared with a
\* tensor category and no shape fails with ValueError (given that nothing
\* else fails before), and leaves no structure.
C15_MissingShapeValueError ==
    (phase # "new" /\ args.datatypes.kind = "none" /\ args.mode # "type"
        /\ \E i \in 1..Len(args.features.items) :
              TensorCategoryOnly(args.features.items[i].k)) =>
        /\ phase = "failed"
        /\ err = "ValueError"
        /\ features = <<>> /\ types = <<>> /\ shapes = <<>>

----------------------------------------------------------------------------
(* C16: unknown modes *)

KnownModes == {"flat", "col", "colflat", "type"}

\* C16: a call of transform whose mode argument is a string that is none of
\* flat, col, colflat, type, or that has no mode argument on a structure
\* whose default mode is such a string, raises ValueError.
C16_UnknownModeValueError ==
    call.op = "transform" =>
        /\ (call.mode # NoMode /\ call.mode \notin KnownModes) => out.err = "ValueError"
        /\ (call.mode = NoMode /\ args.mode \notin KnownModes) => out.err = "ValueError"

----------------------------------------------------------------------------
(* C17: an input that is neither a dict nor a DataFrame *)

\* C17: transform of an input that is neither a dict nor a DataFrame raises
\* TypeError in the modes flat, col and colflat.
C17_ContainerTypeError ==
    (call.op = "transform" /\ call.X.form = "list" /\ Mode \in {"flat", "col", "colflat"}) =>
        out.err = "TypeError"

----------------------------------------------------------------------------
(* C18: an unknown scaler alias *)

KnownAliases == {"standard", "robust", "minmax"}

\* the scaler configuration holds an alias that is not known
UnknownAlias ==
    \E i \in 1..Len(args.scaler.items) :
        /\ args.scaler.items[i].v.t = "alias"
        /\ args.scaler.items[i].v.s \notin KnownAliases

\* __init__ reaches set_scaler
ReachesSetScaler ==
    _extract_features_types_shapes(args).err = "" /\ args.mode # "type"

\* C18: the construction of a structure whose scaler configuration holds an
\* unknown alias, as the one value for all features or as a value of a
\* mapping, raises ValueError when it binds the scalers.
C18_UnknownAliasValueError ==
    (phase # "new" /\ UnknownAlias /\ ReachesSetScaler) =>
        phase = "failed" /\ err = "ValueError"

----------------------------------------------------------------------------
(* C19: the scaler objects that are accepted *)

\* the scaler configuration is one object of the caller, and there is a
\* feature to bind it to
ObjectGiven ==
    /\ args.scaler.kind = "single"
    /\ args.scaler.items[1].v.t = "obj"
    /\ \E i \in 1..Len(_extract_features_types_shapes(args).features) :
          ~IsOneHot(_extract_features_types_shapes(args).features[i])

\* C19: an object of the caller is bound if it has fit, transform and
\* inverse_transform, and rejected with TypeError if it lacks one of them.
C19_CapabilityCheck ==
    (phase # "new" /\ ObjectGiven /\ ReachesSetScaler) =>
        IF args.scaler.items[1].v.caps
        THEN phase = "ready" /\ Len(scaler) > 0
        ELSE phase = "failed" /\ err = "TypeError"

----------------------------------------------------------------------------
(* C20: the keys of the maps *)

KeySet(d) == {d[i].k : i \in 1..Len(d)}

\* C20: in a constructed structure, whatever was called on it, the keys of
\* the type map, of the shape map and of the scaler binding are features of
\* the feature list.
C20_KeysAreFeatures ==
    phase = "ready" =>
        /\ KeySet(types) \subseteq FeatureSet
        /\ KeySet(shapes) \subseteq FeatureSet
        /\ KeySet(scaler) \subseteq FeatureSet

-----------------------------------------------------------------------------
(* C21: the shape of a scalar feature *)

\* C21: once the structure is constructed, every feature whose type is
\* 'scalar' has the shape (1,) in the shape map.
C21_ScalarShapeOne ==
    phase = "ready" =>
        \A f \in FeatureSet :
            (Has(types, f) /\ Get(types, f) = "scalar") =>
                Has(shapes, f) /\ Get(shapes, f) = <<1>>

-----------------------------------------------------------------------------
(* C22: what the calls leave alone *)

\* what a scaler object is apart from its fitted state
Unfitted(o) == [o EXCEPT !.fitted = FALSE, !.params = <<>>]

\* the scaler objects differ at most in their fitted state
SameButFitted(os1, os2) ==
    /\ Len(os1) = Len(os2)
    /\ \A i \in 1..Len(os1) :
           /\ Unfitted(os1[i]) = Unfitted(os2[i])
           /\ os1[i].kind = "const" => os1[i] = os2[i]

\* C22: on a constructed structure, transform (any mode), inverse_transform
\* and summary leave the feature list, the type map, the shape map, the
\* channel-exempt set, the scaler binding and the fitted state of every scaler
\* unchanged; fit changes the fitted state of scalers and nothing else.
C22_FrameEffects ==
    [][phase = "ready" =>
           /\ UNCHANGED <<features, types, shapes, scaler, args, phase, err>>
           /\ call'.op # "fit" => objs' = objs
           /\ call'.op = "fit" => SameButFitted(objs, objs')]_vars

\* a fitted structure whose summary was asked for, or whose transform was
\* inverted, still has its fitted scaler
C22_Witness ==
    /\ phase = "ready"
    /\ fit_called
    /\ \E i \in 1..Len(objs) : objs[i].kind = "sk" /\ objs[i].fitted
    /\ \/ call.op = "summary" /\ out.items = features
       \/ call.op = "transform" /\ call.scaling /\ back.done /\ back.err = ""

-----------------------------------------------------------------------------
(* C23: the types given by `datatypes` *)

\* the features listed in `datatypes` under the type t
ListedUnder(t) ==
    IF Has(args.datatypes.items, t)
    THEN {Get(args.datatypes.items, t)[i] : i \in 1..Len(Get(args.datatypes.items, t))}
    ELSE {}

\* C23: a structure constructed with a `datatypes` dict gives every feature
\* listed under a key of `datatypes` that key as its type, whatever the
\* `features` dict says, and the construction with `datatypes` and a list of
\* features, or no features, succeeds.
C23_DatatypesPriority ==
    (phase # "new" /\ args.datatypes.kind = "dict") =>
        /\ args.features.kind \in {"list", "none"} => phase = "ready"
        /\ phase = "ready" =>
               \A t \in {args.datatypes.items[i].k : i \in 1..Len(args.datatypes.items)} :
                   \A f \in ListedUnder(t) : Has(types, f) /\ Get(types, f) = t

-----------------------------------------------------------------------------
(* C24: fitting again *)

\* the structure as it is right after its construction
Fresh == [Self EXCEPT !.objs = DataStructureInit(args).objs]

-----------------------------------------------------------------------------
(* C25: the inverse of a scalar feature *)

\* every feature has the shape (1,) and none is channel-exempt
AllScalar ==
    /\ WellFormed
    /\ \A f \in FeatureSet : Get(shapes, f) = <<1>> /\ f \notin args.with_channels

\* every scaler object has the three methods of a scaler
AllCapable == \A i \in 1..Len(objs) : objs[i].caps

\* C25: on a structure whose features all have the shape (1,),
\* inverse_transform of the output of transform in mode flat, colflat or col,
\* with scaling=False or with scaling=True and every scaler fitted, returns
\* for every feature a 1-D array with one entry per sample.
C25_ScalarInverseOneDim ==
    (AllScalar /\ back.done /\ Mode \in {"flat", "colflat", "col"} /\ ~call.trivial_dim
        /\ (back.scaling => AllFitted /\ AllCapable)) =>
        /\ back.err = ""
        /\ \A f \in FeatureSet :
               Has(back.items, f) /\ Get(back.items, f).shape = <<call.X.n>>

-----------------------------------------------------------------------------
(* C26: scaling and the shape of a col block *)

\* C26: when transform(X, mode='col', scaling=True) returns on a structure
\* whose scalers are all fitted, the block of every feature that has a scaler
\* has the shape of its block in transform(X, mode='col', scaling=False).
C26_ScalingKeepsShape ==
    (Returned("col") /\ call.scaling /\ ~call.trivial_dim /\ AllFitted /\ AllCapable
        /\ Unscaled.err = "") =>
        \A f \in FeatureSet :
            (Has(scaler, f) /\ Has(out.items, f)) =>
                Get(out.items, f).shape = Get(Unscaled.items, f).shape

-----------------------------------------------------------------------------
(* C27: the rank of a feature declared by a shape *)

\* C27: in a constructed structure, a feature declared with a shape of k axes
\* has the type of rank k (scalar, vector, matrix for 0, 1, 2), channel-exempt
\* or not, and its shape is the declared one if it is channel-exempt and the
\* declared one followed by 1 otherwise.
C27_TupleRank ==
    phase = "ready" =>
        \A f \in FeatureSet :
            DeclaredShape(f) =>
                /\ Has(types, f) /\ Has(shapes, f)
                /\ Get(types, f) = Alias(TensorName(Len(DeclaredValue(f).sh)))
                /\ Get(shapes, f) = WithChannel(DeclaredValue(f).sh, f)

-----------------------------------------------------------------------------
(* C28: the flat output and the colflat blocks *)

\* transform(X, mode='colflat') of the input and the scaling of the last call
Colflat == transform_col(Self, TheX, call.scaling, TRUE, FALSE)

\* C28: when transform(X, mode='flat') returns (on a structure whose feature
\* list has no duplicate and whose shape map is complete), the colflat blocks
\* of the same input are 2-D, one row per sample and as wide as the product of
\* the feature's shape, and the flat output is these blocks side by side in
\* the declared order of the features.
C28_FlatIsStackedColflat ==
    (WellFormed /\ Returned("flat")) =>
        /\ Colflat.err = ""
        /\ \A f \in FeatureSet :
               /\ Has(Colflat.items, f)
               /\ Get(Colflat.items, f).shape = <<call.X.n, Prod(Get(shapes, f))>>
        /\ out.arr = hstack([i \in 1..Len(Declared) |-> Get(Colflat.items, Declared[i])])

-----------------------------------------------------------------------------
(* C29: the feature list has no duplicate *)

\* the features the arguments declare
DeclaredNames ==
    IF args.features.kind \in {"dict", "list"}
    THEN {args.features.items[i].k : i \in 1..Len(args.features.items)}
    ELSE IF args.infer.kind = "dict"
         THEN {args.infer.items[i].k : i \in 1..Len(args.infer.items)}
         ELSE {}

\* C29: the feature list of a constructed structure names every declared
\* feature once: len(structure) is the number of distinct declared features.
C29_FeaturesOnce ==
    phase = "ready" =>
        /\ FeatureSet = DeclaredNames
        /\ Len(features) = Cardinality(DeclaredNames)

-----------------------------------------------------------------------------
(* C30: the sample axis of a col block *)

\* the blocks of the features in the output of the last call
FeatureBlocks == SelectSeq(out.items, LAMBDA it : it.k # "id")

\* no scaler object is the scaler of two features
Unshared ==
    \A i, j \in 1..Len(scaler) : scaler[i].v = scaler[j].v => i = j

\* C30: transform(X, mode='col') of a dict or a DataFrame of n >= 1 samples
\* (with scaling only if every scaler is fitted and the scaler of one feature
\* only) returns, and every feature block it returns has n as the length of
\* its first axis.
C30_SampleAxisKept ==
    (phase = "ready" /\ call.op = "transform" /\ Mode = "col" /\ ~call.trivial_dim
        /\ call.X.form \in {"dict", "df"}
        /\ (call.scaling => AllFitted /\ AllCapable /\ Unshared)) =>
        /\ out.err = ""
        /\ \A i \in 1..Len(FeatureBlocks) :
               /\ FeatureBlocks[i].v.shape # <<>>
               /\ FeatureBlocks[i].v.shape[1] = call.X.n

====
